---- MODULE Spec2Model ----
(***************************************************************************)
(* Credential lifecycle of cuddly-nuxt: the password endpoints             *)
(* (register.post, login.post), the WebAuthn endpoints                     *)
(* (verify-registration.post) and the WebAuthn credentials provider of     *)
(* server/api/auth/[...].ts, over the two Prisma tables User and           *)
(* Authenticator and the per-caller session.                               *)
(*                                                                         *)
(* Every handler is an async function: it runs atomically between two      *)
(* awaits and may interleave with other requests at each await.  One       *)
(* action models one such segment.                                         *)
(***************************************************************************)
EXTENDS Integers, Sequences, FiniteSets, TLC

(***************************************************************************)
(* Bounds of the model.                                                    *)
(***************************************************************************)
\* number of requests the callers send to the password endpoints
MaxRequests == 3
\* number of requests the callers send to the passkey endpoints
MaxPasskeyRequests == 2
\* largest signature counter an authenticator device reports
MaxCounter == 2

(***************************************************************************)
(* Input domains.                                                          *)
(***************************************************************************)
\* concurrent callers, each with its own session cookie
Clients == {"c1", "c2"}

\* e-mail addresses as character sequences; <<>> is a missing value
EmailA == <<"a", "@", "x", ".", "y">>
EmailB == <<"b", "@", "x", ".", "y">>
EmailBad == <<"a", "x", ".", "y">>
NoEmail == <<>>

\* display names; NoName is an absent name (stored as null)
NoName == "null"

\* request bodies of POST /auth/register: [email, password, name];
\* the password "" is a missing (falsy) password
RegisterBodies ==
    [email : {EmailA, EmailB}, password : {"password1", "password2"}, name : {NoName}]
    \cup {[email |-> EmailA, password |-> "password1", name |-> "Ann"],
          [email |-> EmailA, password |-> "short", name |-> "Ann"],
          [email |-> EmailB, password |-> "", name |-> NoName],
          [email |-> EmailBad, password |-> "password1", name |-> NoName],
          [email |-> NoEmail, password |-> "password1", name |-> NoName]}

\* request bodies of POST /auth/login: [email, password]
LoginBodies ==
    [email : {EmailA, EmailB}, password : {"password1", "password2"}]
    \cup {[email |-> EmailA, password |-> ""],
          [email |-> EmailBad, password |-> "password1"]}

(***************************************************************************)
(* Validation schemas and password primitives (server/utils/auth).         *)
(***************************************************************************)
MinPasswordLen == 8

\* z.string().email(): one "@", a non-empty local part, a dotted domain
ValidEmail(e) ==
    \E i \in 2..(Len(e) - 1) :
        /\ e[i] = "@"
        /\ \A j \in 1..Len(e) : e[j] = "@" => j = i
        /\ \E k \in (i + 2)..(Len(e) - 1) : e[k] = "."

\* a schema without the minimum length of the password
registerSchemaNoMin(e, p) ==
    IF e = NoEmail THEN "Required"
    ELSE IF ~ValidEmail(e) THEN "Invalid email address"
    ELSE ""

\* registerSchema.safeParse: the first failing field's message, "" on success
registerSchema(e, p) ==
    IF e = NoEmail THEN "Required"
    ELSE IF ~ValidEmail(e) THEN "Invalid email address"
    ELSE IF Len(p) < MinPasswordLen THEN "Password must be at least 8 characters"
    ELSE ""

\* a schema that wants a non-empty password
loginSchemaNonEmpty(e, p) ==
    IF e = NoEmail THEN "Required"
    ELSE IF ~ValidEmail(e) THEN "Invalid email address"
    ELSE IF Len(p) < 1 THEN "Password is required"
    ELSE ""

\* loginSchema.safeParse: the password is any string
loginSchema(e, p) ==
    IF e = NoEmail THEN "Required"
    ELSE IF ~ValidEmail(e) THEN "Invalid email address"
    ELSE ""

\* the bcrypt variant of register checks presence only
requiredFields(e, p) ==
    IF e = NoEmail \/ p = "" THEN "Email and password are required" ELSE ""

\* a digest is never the plaintext: it wraps it under the scheme that made it
NullDigest == [scheme |-> "null", pw |-> ""]
hashPassword(p) == [scheme |-> "scrypt", pw |-> p]
bcryptHash(p) == [scheme |-> "bcrypt", pw |-> p]
\* bcrypt.compare applied to the digest: it accepts bcrypt digests only
bcryptCompare(hash, p) == hash.scheme = "bcrypt" /\ hash.pw = p
verifyPassword(hash, p) == hash.scheme = "scrypt" /\ hash.pw = p

(***************************************************************************)
(* State.                                                                  *)
(***************************************************************************)
VARIABLES
    variant,         \* which revision of register.post.ts is deployed: "utils" or "bcrypt"
    users,           \* table User: rows [id, email, password, name]
    authenticators,  \* table Authenticator: rows [id, credentialID, credentialPublicKey, counter, userId]
    session,         \* per caller: the user projection its session carries, or NoUser
    req,             \* per caller: its request in flight (position, body, locals, response)
    started,         \* number of requests sent so far
    registered,      \* history: the successful responses of register.post (utils revision)
    issued           \* history: the challenges the options endpoints have returned

vars == <<variant, users, authenticators, session, req, started, registered, issued>>

NoUser == [id |-> 0]
NoResp == [status |-> 0, message |-> "", user |-> NoUser]
IdleReq == [kind |-> "idle", pc |-> "idle", resp |-> NoResp]

\* a pre-existing passkey-only account (User.password is nullable)
SeedUser == [id |-> 1, email |-> EmailB, password |-> NullDigest, name |-> NoName]

\* a selection that keeps every column of the row
WholeRow(u) == u

\* select: { id, email, name } / user: { id, email, name }
Projection(u) == [id |-> u.id, email |-> u.email, name |-> u.name]

\* prisma.user.findUnique({ where: { email } })
UserByEmail(e) == {u \in users : u.email = e}
\* a lookup without where clause: it finds a user whatever the id
AnyUser(i) == users

\* prisma.user.findUnique({ where: { id } })
UserById(i) == {u \in users : u.id = i}
\* @default(cuid()): an id no row has
NewUserId == Cardinality(users) + 1

Error(status, message) == [status |-> status, message |-> message, user |-> NoUser]
Ok(user) == [status |-> 200, message |-> "", user |-> user]

Free(c) == req[c].pc \in {"idle", "done"}

InitPassword ==
    /\ variant \in {"utils", "bcrypt"}
    /\ users \in {{}, {SeedUser}}
    /\ authenticators = {}
    /\ session = [c \in Clients |-> NoUser]
    /\ req = [c \in Clients |-> IdleReq]
    /\ started = 0
    /\ registered = {}
    /\ issued = {}

(***************************************************************************)
(* POST /auth/register                                                     *)
(***************************************************************************)
\* readBody and the validation of the deployed revision
StartRegister(c, b) ==
    /\ Free(c)
    /\ started < MaxRequests
    /\ started' = started + 1
    /\ LET msg == IF variant = "utils" THEN registerSchema(b.email, b.password)
                  ELSE requiredFields(b.email, b.password)
           base == [kind |-> "register", email |-> b.email, password |-> b.password,
                    name |-> b.name, valid |-> msg = "", rejected |-> FALSE,
                    existed |-> UserByEmail(b.email) # {}]
       IN req' = [req EXCEPT ![c] =
              IF msg # ""
              THEN base @@ [pc |-> "done", resp |-> Error(400, msg)]
              ELSE base @@ [pc |-> "reg_find", resp |-> NoResp]]
    /\ UNCHANGED <<variant, users, authenticators, session, registered, issued>>

\* a lookup that finds no row, whatever the table holds
FindNoUser(e) == {}

\* prisma.user.findUnique({ where: { email } }) of the existing-user check
FindExistingUser(e) == UserByEmail(e)

\* const existingUser = await prisma.user.findUnique(...); 409 if found
RegFind(c) ==
    /\ req[c].pc = "reg_find"
    /\ req' = [req EXCEPT ![c] =
          IF FindExistingUser(req[c].email) # {}
          THEN [@ EXCEPT !.pc = "done", !.resp = Error(409, "User already exists")]
          ELSE [@ EXCEPT !.pc = "reg_hash"]]
    /\ UNCHANGED <<variant, users, authenticators, session, started, registered, issued>>

\* const hashedPassword = await hashPassword(password) / bcrypt.hash(password, 12)
RegHash(c) ==
    /\ req[c].pc = "reg_hash"
    /\ req' = [req EXCEPT ![c] =
          [pc |-> "reg_create",
           hashedPassword |-> IF variant = "utils"
                              THEN hashPassword(req[c].password)
                              ELSE bcryptHash(req[c].password)] @@ @]
    /\ UNCHANGED <<variant, users, authenticators, session, started, registered, issued>>

\* a row inserted without the digest
NewUserRowNoPassword(r) ==
    [id |-> NewUserId, email |-> r.email, password |-> NullDigest, name |-> r.name]

\* the row prisma.user.create inserts
NewUserRow(r) ==
    [id |-> NewUserId, email |-> r.email, password |-> r.hashedPassword, name |-> r.name]

\* a table without the unique index on email
UniqueEmailIgnored(e) == FALSE

\* User.email is @unique: a create with a taken email is rejected (P2002)
UniqueEmailViolated(e) == UserByEmail(e) # {}

\* what the caller gets when prisma.user.create rejects: register.post.ts
\* (utils) has no try/catch, the rejection leaves the handler (a 500 of the
\* framework); the bcrypt revision catches it: no statusCode, so 500
CreateRejected ==
    IF variant = "utils" THEN Error(500, "Unhandled P2002")
    ELSE Error(500, "Internal server error")

\* await prisma.user.create(...); the bcrypt revision then returns
RegCreate(c) ==
    /\ req[c].pc = "reg_create"
    /\ LET r == req[c]
           row == NewUserRow(r)
       IN IF UniqueEmailViolated(r.email)
          THEN /\ req' = [req EXCEPT ![c] =
                     [@ EXCEPT !.pc = "done", !.resp = CreateRejected, !.rejected = TRUE]]
               /\ UNCHANGED users
          ELSE /\ users' = users \cup {row}
               /\ req' = [req EXCEPT ![c] =
                     IF variant = "utils"
                     THEN [pc |-> "reg_session", user |-> Projection(row)] @@ @
                     ELSE [pc |-> "done", resp |-> Ok(Projection(row))] @@ @]
    /\ UNCHANGED <<variant, authenticators, session, started, registered, issued>>

\* a session payload without the user
SessionWithoutUser(r) == NoUser

\* { user: { id: user.id, email: user.email, name: user.name } }
SessionUser(r) == r.user

\* await setUserSession(event, { user }); return { user }
RegSession(c) ==
    /\ req[c].pc = "reg_session"
    /\ session' = [session EXCEPT ![c] = SessionUser(req[c])]
    /\ req' = [req EXCEPT ![c] = [@ EXCEPT !.pc = "done", !.resp = Ok(req[c].user)]]
    /\ registered' = registered \cup
           {[email |-> req[c].email, password |-> req[c].password, id |-> req[c].user.id]}
    /\ UNCHANGED <<variant, users, authenticators, started, issued>>

(***************************************************************************)
(* POST /auth/login (login.post.ts)                                        *)
(***************************************************************************)
\* readBody, loginSchema.safeParse
StartLogin(c, b) ==
    /\ Free(c)
    /\ started < MaxRequests
    /\ started' = started + 1
    /\ LET msg == loginSchema(b.email, b.password)
           base == [kind |-> "login", email |-> b.email, password |-> b.password,
                    valid |-> msg = "", found |-> {},
                    afterRegister |-> {x \in registered :
                                          x.email = b.email /\ x.password = b.password},
                    sessionBefore |-> session[c]]
       IN req' = [req EXCEPT ![c] =
              IF msg # ""
              THEN base @@ [pc |-> "done", resp |-> Error(400, msg)]
              ELSE base @@ [pc |-> "login_find", resp |-> NoResp]]
    /\ UNCHANGED <<variant, users, authenticators, session, registered, issued>>

\* an answer that tells the failing check
LeakyCredentials(case) ==
    IF case = "no user" THEN Error(404, "User not found") ELSE Error(401, "Invalid password")

\* the answer of every credential failure of login.post.ts
InvalidCredentials(case) == Error(401, "Invalid credentials")

\* const user = await prisma.user.findUnique(...); 401 if !user || !user.password
LoginFind(c) ==
    /\ req[c].pc = "login_find"
    /\ LET found == UserByEmail(req[c].email)
       IN req' = [req EXCEPT ![c] =
              IF found = {}
              THEN [@ EXCEPT !.pc = "done", !.resp = InvalidCredentials("no user")]
              ELSE IF \E u \in found : u.password = NullDigest
              THEN [@ EXCEPT !.pc = "done", !.found = found,
                             !.resp = InvalidCredentials("no password")]
              ELSE [@ EXCEPT !.pc = "login_verify", !.found = found]]
    /\ UNCHANGED <<variant, users, authenticators, session, started, registered, issued>>

\* a check that lets every password pass
PasswordNeverInvalid(found, password) == FALSE

\* if (!validPassword)
PasswordInvalid(found, password) == \E u \in found : ~verifyPassword(u.password, password)

\* const validPassword = await verifyPassword(user.password, password); 401 if not
LoginVerify(c) ==
    /\ req[c].pc = "login_verify"
    /\ req' = [req EXCEPT ![c] =
          IF PasswordInvalid(req[c].found, req[c].password)
          THEN [@ EXCEPT !.pc = "done", !.resp = InvalidCredentials("wrong password")]
          ELSE [@ EXCEPT !.pc = "login_session"]]
    /\ UNCHANGED <<variant, users, authenticators, session, started, registered, issued>>

\* await setUserSession(event, { user }); return { user }
LoginSession(c) ==
    /\ req[c].pc = "login_session"
    /\ \E u \in req[c].found :
          /\ session' = [session EXCEPT ![c] = Projection(u)]
          /\ req' = [req EXCEPT ![c] = [@ EXCEPT !.pc = "done", !.resp = Ok(Projection(u))]]
    /\ UNCHANGED <<variant, users, authenticators, started, registered, issued>>

(***************************************************************************)
(* Specification of the password endpoints.                                *)
(***************************************************************************)
NextPassword ==
    \/ \E c \in Clients, b \in RegisterBodies : StartRegister(c, b)
    \/ \E c \in Clients : RegFind(c)
    \/ \E c \in Clients : RegHash(c)
    \/ \E c \in Clients : RegCreate(c)
    \/ \E c \in Clients : RegSession(c)
    \/ \E c \in Clients, b \in LoginBodies : StartLogin(c, b)
    \/ \E c \in Clients : LoginFind(c)
    \/ \E c \in Clients : LoginVerify(c)
    \/ \E c \in Clients : LoginSession(c)

SpecPassword == InitPassword /\ [][NextPassword]_vars

(***************************************************************************)
(* WebAuthn: credentials, attestations and assertions.                     *)
(***************************************************************************)
\* credential identifiers are byte strings; clients carry them as base64url
CredIds == {<<1>>, <<2>>}
\* Buffer.toString('base64url')
Base64url(bytes) == IF bytes = <<1>> THEN "AQ" ELSE IF bytes = <<2>> THEN "Ag" ELSE ""
\* a decoding that yields the same bytes for every text
FromBase64urlFixed(text) == <<1>>

\* Buffer.from(text, 'base64url')
FromBase64url(text) == IF text = "AQ" THEN <<1>> ELSE IF text = "Ag" THEN <<2>> ELSE <<>>

\* key pairs of the authenticator devices (the public key names the pair)
Keys == {"k1", "k2"}
Counters == 0..MaxCounter

\* the state the passkey endpoints start from: two registered users
\* (a passkey-only account and a password account), and either no
\* authenticator yet or one that the password account registered
PasskeyUser == [id |-> 2, email |-> EmailA, password |-> hashPassword("password1"), name |-> "Ann"]
SeedAuthenticator ==
    [id |-> 1, credentialID |-> <<1>>, credentialPublicKey |-> "k1", counter |-> 0, userId |-> 2]

\* an attestation response: what the device attests, the challenge it signed,
\* and whether its attestation statement is well-formed
Attestations ==
    [credentialID : {<<1>>}, credentialPublicKey : Keys, counter : Counters,
     challenge : {"ch1"}, attested : {TRUE}]
    \cup [credentialID : {<<2>>}, credentialPublicKey : {"k2"}, counter : Counters,
          challenge : {"ch1"}, attested : {TRUE}]
NoResponse == [credentialID |-> <<>>]

\* request bodies of POST /auth/webauthn/verify-registration:
\* [userID, response, expectedChallenge]; userID 0 and challenge "" are missing
VerifyRegistrationBodies ==
    [userID : {1, 2}, response : Attestations, expectedChallenge : {"ch1"}]
    \cup {[userID |-> 0, response |-> a, expectedChallenge |-> "ch1"] :
             a \in {x \in Attestations : x.counter = 0 /\ x.credentialID = <<2>>}}
    \cup {[userID |-> 3, response |-> a, expectedChallenge |-> "ch1"] :
             a \in {x \in Attestations : x.counter = 0 /\ x.credentialID = <<2>>}}
    \cup {[userID |-> 1, response |-> a, expectedChallenge |-> "ch2"] :
             a \in {x \in Attestations : x.counter = 0 /\ x.credentialID = <<2>>}}
    \cup {[userID |-> 1, response |-> [a EXCEPT !.attested = FALSE], expectedChallenge |-> "ch1"] :
             a \in {x \in Attestations : x.counter = 0 /\ x.credentialID = <<2>>}}
    \cup {[userID |-> 1, response |-> NoResponse, expectedChallenge |-> "ch1"]}

\* an assertion response: the credential it names, the key that signed it,
\* the signature counter and the challenge it signed
Assertions ==
    [id : {"AQ", "Ag"}, signedBy : Keys, counter : Counters, challenge : {"ch1"}]
NoAssertion == [id |-> ""]

\* credentials of the 'webauthn' provider: [response, challenge]
WebAuthnCredentials ==
    [response : Assertions, challenge : {"ch1"}]
    \cup {[response |-> a, challenge |-> "ch2"] :
             a \in {x \in Assertions : x.id = "AQ" /\ x.signedBy = "k1" /\ x.counter = MaxCounter}}
    \cup {[response |-> NoAssertion, challenge |-> "ch1"]}

InitPasskey ==
    /\ variant = "utils"
    /\ users = {SeedUser, PasskeyUser}
    /\ authenticators \in {{}, {SeedAuthenticator}}
    /\ session = [c \in Clients |-> NoUser]
    /\ req = [c \in Clients |-> IdleReq]
    /\ started = 0
    /\ registered = {}
    /\ issued = {}

\* prisma.authenticator.findUnique({ where: { credentialID } })
AuthenticatorByCredential(cred) == {a \in authenticators : a.credentialID = cred}
\* @default(cuid()): an id no row has
NewAuthenticatorId == Cardinality(authenticators) + 1

(***************************************************************************)
(* POST /auth/webauthn/verify-registration                                 *)
(***************************************************************************)
\* readBody; 400 if userID, response or expectedChallenge is missing
StartVerifyRegistration(c, b) ==
    /\ Free(c)
    /\ started < MaxPasskeyRequests
    /\ started' = started + 1
    /\ LET base == [kind |-> "verify-registration", userID |-> b.userID,
                    response |-> b.response, expectedChallenge |-> b.expectedChallenge]
       IN req' = [req EXCEPT ![c] =
              IF b.userID = 0 \/ b.response = NoResponse \/ b.expectedChallenge = ""
              THEN base @@ [pc |-> "done", resp |->
                      Error(400, "User ID, response, and expected challenge are required")]
              ELSE base @@ [pc |-> "vr_find", resp |-> NoResp]]
    /\ UNCHANGED <<variant, users, authenticators, session, registered, issued>>

\* const user = await prisma.user.findUnique({ where: { id: userID } }); 404 if none
VrFind(c) ==
    /\ req[c].pc = "vr_find"
    /\ req' = [req EXCEPT ![c] =
          IF UserById(req[c].userID) = {}
          THEN [@ EXCEPT !.pc = "done", !.resp = Error(404, "User not found")]
          ELSE [@ EXCEPT !.pc = "vr_verify"]]
    /\ UNCHANGED <<variant, users, authenticators, session, started, registered, issued>>

\* a verification that accepts every attestation over the expected challenge
verifyRegistrationResponseLax(response, expectedChallenge) ==
    IF response.challenge = expectedChallenge
    THEN [verified |-> TRUE,
          registrationInfo |-> [credentialID |-> response.credentialID,
                                credentialPublicKey |-> response.credentialPublicKey,
                                counter |-> response.counter]]
    ELSE [verified |-> FALSE]

\* verifyRegistrationResponse({ response, expectedChallenge, ... }): verified
\* with the attested credential, or not verified
verifyRegistrationResponse(response, expectedChallenge) ==
    IF response.attested /\ response.challenge = expectedChallenge
    THEN [verified |-> TRUE,
          registrationInfo |-> [credentialID |-> response.credentialID,
                                credentialPublicKey |-> response.credentialPublicKey,
                                counter |-> response.counter]]
    ELSE [verified |-> FALSE]

\* const verification = await verifyRegistrationResponse(...); a result that is
\* not verified is answered 400; the library may also reject by throwing, which
\* the catch block answers 500
VrVerify(c) ==
    /\ req[c].pc = "vr_verify"
    /\ LET verification == verifyRegistrationResponse(req[c].response, req[c].expectedChallenge)
       IN IF verification.verified
          THEN req' = [req EXCEPT ![c] =
                   [pc |-> "vr_create", outcome |-> "verified",
                    registrationInfo |-> verification.registrationInfo] @@ @]
          ELSE \/ req' = [req EXCEPT ![c] =
                      [pc |-> "done", outcome |-> "unverified",
                       resp |-> Error(400, "Registration verification failed")] @@ @]
               \/ req' = [req EXCEPT ![c] =
                      [pc |-> "done", outcome |-> "thrown",
                       resp |-> Error(500, "Internal server error")] @@ @]
    /\ UNCHANGED <<variant, users, authenticators, session, started, registered, issued>>

\* a row whose counter starts at a hardcoded 0
NewAuthenticatorRowZero(r) ==
    [id |-> NewAuthenticatorId,
     credentialID |-> r.registrationInfo.credentialID,
     credentialPublicKey |-> r.registrationInfo.credentialPublicKey,
     counter |-> 0,
     userId |-> r.userID]

\* the row prisma.authenticator.create inserts
NewAuthenticatorRow(r) ==
    [id |-> NewAuthenticatorId,
     credentialID |-> r.registrationInfo.credentialID,
     credentialPublicKey |-> r.registrationInfo.credentialPublicKey,
     counter |-> r.registrationInfo.counter,
     userId |-> r.userID]

\* a table without the unique index on credentialID
UniqueCredentialIgnored(cred) == FALSE

\* Authenticator.credentialID is @unique: a create with a taken one is rejected
UniqueCredentialViolated(cred) == AuthenticatorByCredential(cred) # {}

\* await prisma.authenticator.create(...); a rejection has no statusCode: 500
VrCreate(c) ==
    /\ req[c].pc = "vr_create"
    /\ LET row == NewAuthenticatorRow(req[c])
       IN IF UniqueCredentialViolated(row.credentialID)
          THEN /\ req' = [req EXCEPT ![c] =
                     [@ EXCEPT !.pc = "done", !.resp = Error(500, "Internal server error")]]
               /\ UNCHANGED authenticators
          ELSE /\ authenticators' = authenticators \cup {row}
               /\ req' = [req EXCEPT ![c] = [@ EXCEPT !.pc = "done",
                     !.resp = [status |-> 200, message |-> "", user |-> NoUser,
                               authenticator |-> [id |-> row.id,
                                                  credentialID |-> Base64url(row.credentialID)]]]]
    /\ UNCHANGED <<variant, users, session, started, registered, issued>>

(***************************************************************************)
(* 'webauthn' credentials provider of the auth handler: authorize          *)
(***************************************************************************)
\* other callers whose passkey authentication is in flight
InFlight(c) ==
    {d \in Clients \ {c} : req[d].kind = "webauthn" /\ req[d].pc # "done"}

\* if (!credentials?.response || !credentials?.challenge) return null
StartWebAuthn(c, b) ==
    /\ Free(c)
    /\ started < MaxPasskeyRequests
    /\ started' = started + 1
    /\ LET base == [kind |-> "webauthn", response |-> b.response, challenge |-> b.challenge,
                    overlaps |-> InFlight(c)]
       IN req' = [req EXCEPT ![c] =
              IF b.response = NoAssertion \/ b.challenge = ""
              THEN base @@ [pc |-> "done", resp |-> Error(401, "authorize: null")]
              ELSE base @@ [pc |-> "wa_find", resp |-> NoResp]]
    /\ UNCHANGED <<variant, users, authenticators, session, registered, issued>>

\* a join that is not restricted to the owner
IncludeAnyUser(a) == users

\* include: { user: true }: the row of the owner
IncludeUser(a) == {u \in users : u.id = a.userId}

\* const authenticator = await prisma.authenticator.findUnique({ where:
\* { credentialID: Buffer.from(webauthnResponse.id, 'base64url') }, include: { user: true } })
WaFind(c) ==
    /\ req[c].pc = "wa_find"
    /\ LET found == AuthenticatorByCredential(FromBase64url(req[c].response.id))
       IN IF found = {}
          THEN req' = [req EXCEPT ![c] =
                   [@ EXCEPT !.pc = "done", !.resp = Error(401, "authorize: null")]]
          ELSE \E a \in found : \E u \in IncludeUser(a) :
                   req' = [req EXCEPT ![c] =
                       [pc |-> "wa_verify", authenticator |-> a, user |-> u] @@ @]
    /\ UNCHANGED <<variant, users, authenticators, session, started, registered, issued>>

\* verifyAuthenticationResponse({ response, expectedChallenge, authenticator }):
\* the signature is by the public key handed in, over the expected challenge,
\* and the counter is above the counter handed in (the anti-replay rule of
\* docs/webauthn-auth.md); the handler has no counter check of its own
verifyAuthenticationResponse(response, expectedChallenge, authenticator) ==
    IF /\ response.signedBy = authenticator.credentialPublicKey
       /\ response.challenge = expectedChallenge
       /\ response.counter > authenticator.counter
    THEN [verified |-> TRUE, authenticationInfo |-> [newCounter |-> response.counter]]
    ELSE [verified |-> FALSE]

\* const verification = await verifyAuthenticationResponse(...); not verified,
\* or a throw of the library: return null
WaVerify(c) ==
    /\ req[c].pc = "wa_verify"
    /\ LET verification == verifyAuthenticationResponse(req[c].response, req[c].challenge,
                               [credentialID |-> req[c].authenticator.credentialID,
                                credentialPublicKey |-> req[c].authenticator.credentialPublicKey,
                                counter |-> req[c].authenticator.counter])
       IN req' = [req EXCEPT ![c] =
              IF verification.verified
              THEN [pc |-> "wa_update", verification |-> verification] @@ @
              ELSE [@ EXCEPT !.pc = "done", !.resp = Error(401, "authorize: null")]]
    /\ UNCHANGED <<variant, users, authenticators, session, started, registered, issued>>

\* an update that increments the stored counter instead of storing the new one
AuthenticatorIncrement(cred, counter) ==
    {IF a.credentialID = cred THEN [a EXCEPT !.counter = @ + 1] ELSE a : a \in authenticators}

\* an update without where clause: every row matches
UpdateWhereAny(a, cred) == TRUE

\* where: { credentialID: authenticator.credentialID }
UpdateWhere(a, cred) == a.credentialID = cred

\* data that also moves the row to the user with the row's own id
UpdateDataOwner(a, counter) == [a EXCEPT !.counter = counter, !.userId = a.id]

\* data: { counter: verification.authenticationInfo.newCounter }
UpdateData(a, counter) == [a EXCEPT !.counter = counter]

\* prisma.authenticator.update({ where: { credentialID }, data: { counter } })
AuthenticatorUpdate(cred, counter) ==
    {IF UpdateWhere(a, cred) THEN UpdateData(a, counter) ELSE a : a \in authenticators}

\* the user authorize returns
AuthorizedUser(r) == Projection(r.user)

\* await prisma.authenticator.update(...); return { id, email, name } of
\* authenticator.user; the jwt and session callbacks put it in the session
WaUpdate(c) ==
    /\ req[c].pc = "wa_update"
    /\ authenticators' = AuthenticatorUpdate(req[c].authenticator.credentialID,
                             req[c].verification.authenticationInfo.newCounter)
    /\ session' = [session EXCEPT ![c] = AuthorizedUser(req[c])]
    /\ req' = [req EXCEPT ![c] = [@ EXCEPT !.pc = "done", !.resp = Ok(AuthorizedUser(req[c]))]]
    /\ UNCHANGED <<variant, users, started, registered, issued>>

(***************************************************************************)
(* Specification of the passkey endpoints.                                 *)
(***************************************************************************)
NextPasskey ==
    \/ \E c \in Clients, b \in VerifyRegistrationBodies : StartVerifyRegistration(c, b)
    \/ \E c \in Clients : VrFind(c)
    \/ \E c \in Clients : VrVerify(c)
    \/ \E c \in Clients : VrCreate(c)
    \/ \E c \in Clients, b \in WebAuthnCredentials : StartWebAuthn(c, b)
    \/ \E c \in Clients : WaFind(c)
    \/ \E c \in Clients : WaVerify(c)
    \/ \E c \in Clients : WaUpdate(c)

SpecPasskey == InitPasskey /\ [][NextPasskey]_vars

(***************************************************************************)
(* POST /auth/webauthn/register-options                                    *)
(***************************************************************************)
\* an email address no account has
EmailUnknown == <<"c", "@", "x", ".", "y">>

\* options.challenge: a fresh random value chosen by the library
Challenges == {"ch1", "ch2"}

\* request bodies of POST /auth/webauthn/register-options: userID 0 is
\* missing, 3 is the id of no user
RegisterOptionsBodies == [userID : {0, 1, 2, 3}]

\* a handler that does not check the presence of userID
UserIDNeverMissing(b) == FALSE

\* if (!userID)
UserIDMissing(b) == b.userID = 0

\* a lookup that joins every Authenticator row
AllAuthenticators(found) == authenticators

\* include: { authenticators: true }: the rows whose userId is the user's id
OwnedAuthenticators(found) == {a \in authenticators : \E u \in found : a.userId = u.id}

\* the credential descriptors handed to the library:
\* { id: authenticator.credentialID, type: 'public-key' }
Descriptors(rows) == {[id |-> a.credentialID, type |-> "public-key"] : a \in rows}

\* the library returns each descriptor with its id encoded as base64url
EncodedDescriptors(descriptors) ==
    {[id |-> Base64url(d.id), type |-> d.type] : d \in descriptors}

\* readBody; 400 if userID is missing
StartRegisterOptions(c, b) ==
    /\ Free(c)
    /\ started < MaxPasskeyRequests
    /\ started' = started + 1
    /\ LET base == [kind |-> "register-options", userID |-> b.userID]
       IN req' = [req EXCEPT ![c] =
              IF UserIDMissing(b)
              THEN base @@ [pc |-> "done", resp |-> Error(400, "User ID is required")]
              ELSE base @@ [pc |-> "ro_find", resp |-> NoResp]]
    /\ UNCHANGED <<variant, users, authenticators, session, registered, issued>>

\* const user = await prisma.user.findUnique({ where: { id: userID },
\* include: { authenticators: true } }); 404 if there is none
RoFind(c) ==
    /\ req[c].pc = "ro_find"
    /\ LET user == UserById(req[c].userID)
       IN req' = [req EXCEPT ![c] =
              IF user = {}
              THEN [@ EXCEPT !.pc = "done", !.resp = Error(404, "User not found")]
              ELSE [pc |-> "ro_generate",
                    existingAuthenticators |-> OwnedAuthenticators(user)] @@ @]
    /\ UNCHANGED <<variant, users, authenticators, session, started, registered, issued>>

\* generateRegistrationOptions({ ..., excludeCredentials }): the options carry
\* a fresh challenge and the exclusion list
generateRegistrationOptions(challenge, excludeCredentials) ==
    [challenge |-> challenge, excludeCredentials |-> EncodedDescriptors(excludeCredentials)]

\* const options = await generateRegistrationOptions(...);
\* return { options, challenge: options.challenge }
RoGenerate(c) ==
    /\ req[c].pc = "ro_generate"
    /\ \E challenge \in Challenges :
         LET options == generateRegistrationOptions(challenge,
                            Descriptors(req[c].existingAuthenticators))
         IN /\ issued' = issued \cup {[endpoint |-> "register-options", challenge |-> challenge]}
            /\ req' = [req EXCEPT ![c] = [@ EXCEPT !.pc = "done", !.resp =
                [status |-> 200, message |-> "", user |-> NoUser,
                 options |-> options, challenge |-> options.challenge]]]
    /\ UNCHANGED <<variant, users, authenticators, session, started, registered>>

(***************************************************************************)
(* POST /auth/webauthn/auth-options                                        *)
(***************************************************************************)
\* request bodies of POST /auth/webauthn/auth-options: NoEmail is a body
\* without userEmail
AuthOptionsBodies == [userEmail : {NoEmail, EmailA, EmailB, EmailUnknown}]

\* let allowCredentials = undefined; if (userEmail) ... else straight to the
\* generation of the options
StartAuthOptions(c, b) ==
    /\ Free(c)
    /\ started < MaxPasskeyRequests
    /\ started' = started + 1
    /\ req' = [req EXCEPT ![c] =
          [kind |-> "auth-options", userEmail |-> b.userEmail,
           allowDefined |-> FALSE, allowCredentials |-> {},
           pc |-> IF b.userEmail # NoEmail THEN "ao_find" ELSE "ao_generate",
           resp |-> NoResp]]
    /\ UNCHANGED <<variant, users, authenticators, session, registered, issued>>

\* a condition that only asks whether the user exists
UserFound(found, rows) == found # {}

\* if (user && user.authenticators.length > 0)
UserHasAuthenticators(found, rows) == found # {} /\ rows # {}

\* const user = await prisma.user.findUnique({ where: { email: userEmail },
\* include: { authenticators: true } }); allowCredentials is set when the
\* user has authenticators
AoFind(c) ==
    /\ req[c].pc = "ao_find"
    /\ LET user == UserByEmail(req[c].userEmail)
           rows == OwnedAuthenticators(user)
       IN req' = [req EXCEPT ![c] =
              IF UserHasAuthenticators(user, rows)
              THEN [@ EXCEPT !.pc = "ao_generate", !.allowDefined = TRUE,
                             !.allowCredentials = Descriptors(rows)]
              ELSE [@ EXCEPT !.pc = "ao_generate"]]
    /\ UNCHANGED <<variant, users, authenticators, session, started, registered, issued>>

\* generateAuthenticationOptions({ rpID, userVerification, allowCredentials }):
\* the options carry a fresh challenge, and the allow-list when one is given
generateAuthenticationOptions(challenge, allowDefined, allowCredentials) ==
    IF allowDefined
    THEN [challenge |-> challenge, allowCredentials |-> EncodedDescriptors(allowCredentials)]
    ELSE [challenge |-> challenge]

\* const options = await generateAuthenticationOptions(...);
\* return { options, challenge: options.challenge }
AoGenerate(c) ==
    /\ req[c].pc = "ao_generate"
    /\ \E challenge \in Challenges :
         LET options == generateAuthenticationOptions(challenge, req[c].allowDefined,
                                                      req[c].allowCredentials)
         IN /\ issued' = issued \cup {[endpoint |-> "auth-options", challenge |-> challenge]}
            /\ req' = [req EXCEPT ![c] = [@ EXCEPT !.pc = "done", !.resp =
                [status |-> 200, message |-> "", user |-> NoUser,
                 options |-> options, challenge |-> options.challenge]]]
    /\ UNCHANGED <<variant, users, authenticators, session, started, registered>>

\* the options endpoints next to passkey registrations
NextOptions ==
    \/ \E c \in Clients, b \in RegisterOptionsBodies : StartRegisterOptions(c, b)
    \/ \E c \in Clients : RoFind(c)
    \/ \E c \in Clients : RoGenerate(c)
    \/ \E c \in Clients, b \in AuthOptionsBodies : StartAuthOptions(c, b)
    \/ \E c \in Clients : AoFind(c)
    \/ \E c \in Clients : AoGenerate(c)
    \/ \E c \in Clients, b \in VerifyRegistrationBodies : StartVerifyRegistration(c, b)
    \/ \E c \in Clients : VrFind(c)
    \/ \E c \in Clients : VrVerify(c)
    \/ \E c \in Clients : VrCreate(c)

SpecOptions == InitPasskey /\ [][NextOptions]_vars

(***************************************************************************)
(* All endpoints together, each with a few request bodies.                 *)
(***************************************************************************)
\* a registration of a new email and one of a taken email
AllRegisterBodies ==
    {[email |-> EmailUnknown, password |-> "password1", name |-> NoName],
     [email |-> EmailA, password |-> "password2", name |-> NoName]}

\* the right and a wrong password of the password account
AllLoginBodies == [email : {EmailA}, password : {"password1", "password2"}]

\* a verified attestation of a second credential and an unverified one
AllVerifyRegistrationBodies ==
    {[userID |-> 1, expectedChallenge |-> "ch1",
      response |-> [credentialID |-> <<2>>, credentialPublicKey |-> "k2", counter |-> 0,
                    challenge |-> "ch1", attested |-> ok]] : ok \in BOOLEAN}

\* assertions of the first credential: by its key with the counters 0, 1
\* and MaxCounter, and by another key
AllWebAuthnCredentials ==
    {[response |-> [id |-> "AQ", signedBy |-> "k1", counter |-> n, challenge |-> "ch1"],
      challenge |-> "ch1"] : n \in {0, 1, MaxCounter}}
    \cup {[response |-> [id |-> "AQ", signedBy |-> "k2", counter |-> MaxCounter,
                         challenge |-> "ch1"],
           challenge |-> "ch1"]}

AllRegisterOptionsBodies == [userID : {2, 3}]
AllAuthOptionsBodies == [userEmail : {NoEmail, EmailA}]

NextAll ==
    \/ \E c \in Clients, b \in AllRegisterBodies : StartRegister(c, b)
    \/ \E c \in Clients : RegFind(c)
    \/ \E c \in Clients : RegHash(c)
    \/ \E c \in Clients : RegCreate(c)
    \/ \E c \in Clients : RegSession(c)
    \/ \E c \in Clients, b \in AllLoginBodies : StartLogin(c, b)
    \/ \E c \in Clients : LoginFind(c)
    \/ \E c \in Clients : LoginVerify(c)
    \/ \E c \in Clients : LoginSession(c)
    \/ \E c \in Clients, b \in AllVerifyRegistrationBodies : StartVerifyRegistration(c, b)
    \/ \E c \in Clients : VrFind(c)
    \/ \E c \in Clients : VrVerify(c)
    \/ \E c \in Clients : VrCreate(c)
    \/ \E c \in Clients, b \in AllWebAuthnCredentials : StartWebAuthn(c, b)
    \/ \E c \in Clients : WaFind(c)
    \/ \E c \in Clients : WaVerify(c)
    \/ \E c \in Clients : WaUpdate(c)
    \/ \E c \in Clients, b \in AllRegisterOptionsBodies : StartRegisterOptions(c, b)
    \/ \E c \in Clients : RoFind(c)
    \/ \E c \in Clients : RoGenerate(c)
    \/ \E c \in Clients, b \in AllAuthOptionsBodies : StartAuthOptions(c, b)
    \/ \E c \in Clients : AoFind(c)
    \/ \E c \in Clients : AoGenerate(c)

SpecAll == InitPasskey /\ [][NextAll]_vars

(***************************************************************************)
(* Storage and library failures in the handlers that catch them.           *)
(***************************************************************************)
\* the request of a caller ends with an answer after one of its awaited
\* calls threw
Thrown(c, answer) ==
    req' = [req EXCEPT ![c] = [pc |-> "done", resp |-> answer, failed |-> TRUE] @@ @]

\* verify-registration: catch (error) { if (error.statusCode) throw error;
\* throw createError({ statusCode: 500, statusMessage: 'Internal server error' }) }
VrFail(c) ==
    /\ req[c].pc \in {"vr_find", "vr_verify", "vr_create"}
    /\ Thrown(c, Error(500, "Internal server error"))
    /\ UNCHANGED <<variant, users, authenticators, session, started, registered, issued>>

\* register-options: the same catch block
RoFail(c) ==
    /\ req[c].pc \in {"ro_find", "ro_generate"}
    /\ Thrown(c, Error(500, "Internal server error"))
    /\ UNCHANGED <<variant, users, authenticators, session, started, registered, issued>>

\* auth-options: catch (error) { throw createError({ statusCode: 500, ... }) }
AoFail(c) ==
    /\ req[c].pc \in {"ao_find", "ao_generate"}
    /\ Thrown(c, Error(500, "Internal server error"))
    /\ UNCHANGED <<variant, users, authenticators, session, started, registered, issued>>

\* webauthn provider: catch (error) { console.error(...); return null }
WaFail(c) ==
    /\ req[c].pc \in {"wa_find", "wa_verify", "wa_update"}
    /\ Thrown(c, Error(401, "authorize: null"))
    /\ UNCHANGED <<variant, users, authenticators, session, started, registered, issued>>

\* the passkey handlers with calls that may throw
NextFailure ==
    \/ \E c \in Clients, b \in AllVerifyRegistrationBodies : StartVerifyRegistration(c, b)
    \/ \E c \in Clients : VrFind(c)
    \/ \E c \in Clients : VrVerify(c)
    \/ \E c \in Clients : VrCreate(c)
    \/ \E c \in Clients : VrFail(c)
    \/ \E c \in Clients, b \in AllWebAuthnCredentials : StartWebAuthn(c, b)
    \/ \E c \in Clients : WaFind(c)
    \/ \E c \in Clients : WaVerify(c)
    \/ \E c \in Clients : WaUpdate(c)
    \/ \E c \in Clients : WaFail(c)
    \/ \E c \in Clients, b \in AllRegisterOptionsBodies : StartRegisterOptions(c, b)
    \/ \E c \in Clients : RoFind(c)
    \/ \E c \in Clients : RoGenerate(c)
    \/ \E c \in Clients : RoFail(c)
    \/ \E c \in Clients, b \in AllAuthOptionsBodies : StartAuthOptions(c, b)
    \/ \E c \in Clients : AoFind(c)
    \/ \E c \in Clients : AoGenerate(c)
    \/ \E c \in Clients : AoFail(c)

SpecFailure == InitPasskey /\ [][NextFailure]_vars

(***************************************************************************)
(* POST /auth/logout and GET /auth/session (handlers not among the         *)
(* sources: written from the specification's endpoint table).              *)
(***************************************************************************)
\* a logout that leaves the session as it is
keepUserSession(s) == s

\* the session after logout: cleared, it holds no user
clearUserSession(s) == NoUser

\* POST /auth/logout: clears the caller's session and answers { }
Logout(c) ==
    /\ Free(c)
    /\ started < MaxRequests
    /\ started' = started + 1
    /\ session' = [session EXCEPT ![c] = clearUserSession(@)]
    /\ req' = [req EXCEPT ![c] =
          [kind |-> "logout", pc |-> "done", sessionBefore |-> session[c],
           resp |-> [status |-> 200, message |-> "", user |-> NoUser]]]
    /\ UNCHANGED <<variant, users, authenticators, registered, issued>>

\* GET /auth/session: answers the user the caller's session holds, or null
GetSession(c) ==
    /\ Free(c)
    /\ started < MaxRequests
    /\ started' = started + 1
    /\ req' = [req EXCEPT ![c] =
          [kind |-> "session", pc |-> "done",
           loggedOut |-> IF req[c].kind = "logout" THEN req[c].sessionBefore ELSE NoUser,
           resp |-> [status |-> 200, message |-> "", user |-> session[c]]]]
    /\ UNCHANGED <<variant, users, authenticators, session, registered, issued>>

\* the password endpoints with logout and session query
NextSession ==
    \/ \E c \in Clients, b \in AllRegisterBodies : StartRegister(c, b)
    \/ \E c \in Clients : RegFind(c)
    \/ \E c \in Clients : RegHash(c)
    \/ \E c \in Clients : RegCreate(c)
    \/ \E c \in Clients : RegSession(c)
    \/ \E c \in Clients, b \in AllLoginBodies : StartLogin(c, b)
    \/ \E c \in Clients : LoginFind(c)
    \/ \E c \in Clients : LoginVerify(c)
    \/ \E c \in Clients : LoginSession(c)
    \/ \E c \in Clients : Logout(c)
    \/ \E c \in Clients : GetSession(c)

SpecSession == InitPasskey /\ [][NextSession]_vars

(***************************************************************************)
(* The endpoints on empty tables: every row is one an endpoint created.    *)
(***************************************************************************)
InitEmpty ==
    /\ variant \in {"utils", "bcrypt"}
    /\ users = {}
    /\ authenticators = {}
    /\ session = [c \in Clients |-> NoUser]
    /\ req = [c \in Clients |-> IdleReq]
    /\ started = 0
    /\ registered = {}
    /\ issued = {}

NextEmpty ==
    \/ \E c \in Clients, b \in RegisterBodies : StartRegister(c, b)
    \/ \E c \in Clients : RegFind(c)
    \/ \E c \in Clients : RegHash(c)
    \/ \E c \in Clients : RegCreate(c)
    \/ \E c \in Clients : RegSession(c)
    \/ \E c \in Clients, b \in LoginBodies : StartLogin(c, b)
    \/ \E c \in Clients : LoginFind(c)
    \/ \E c \in Clients : LoginVerify(c)
    \/ \E c \in Clients : LoginSession(c)
    \/ \E c \in Clients, b \in AllVerifyRegistrationBodies : StartVerifyRegistration(c, b)
    \/ \E c \in Clients : VrFind(c)
    \/ \E c \in Clients : VrVerify(c)
    \/ \E c \in Clients : VrCreate(c)

SpecEmpty == InitEmpty /\ [][NextEmpty]_vars

(***************************************************************************)
(* Properties of the password endpoints (checked under SpecPassword).      *)
(***************************************************************************)
IsDone(c, kind) == req[c].kind = kind /\ req[c].pc = "done"

\* C1: a login with the (email, password) pair of an earlier successful
\* registration succeeds, and the user id it returns is the id the
\* registration returned, whatever happened to other emails in between.
C1_RegisterThenLogin ==
    \A c \in Clients :
        (IsDone(c, "login") /\ req[c].afterRegister # {}) =>
            /\ req[c].resp.status = 200
            /\ \A x \in req[c].afterRegister : req[c].resp.user.id = x.id

\* a login after a registration has answered, with a row of another email
\* created after the registered one
C1_Witness ==
    \E c \in Clients :
        /\ IsDone(c, "login")
        /\ \E x \in req[c].afterRegister :
              /\ req[c].resp.user.id = x.id
              /\ \E u \in users : u.email # x.email /\ u.id > x.id

\* C2 as stated: once a user with email e exists, every later registration
\* with e is answered 409 'User already exists', whatever the password.
C2_AlwaysConflict ==
    \A c \in Clients :
        (IsDone(c, "register") /\ req[c].existed) =>
            req[c].resp = Error(409, "User already exists")

\* C2 amended: once a user with email e exists, every later registration with e
\* whose body passes validation is answered 409 'User already exists' (one that
\* fails validation is answered 400), and no step of either creates or changes
\* a User row.
C2_ValidDuplicateConflict ==
    /\ [](\A c \in Clients :
            (IsDone(c, "register") /\ req[c].existed) =>
                /\ req[c].valid => req[c].resp = Error(409, "User already exists")
                /\ ~req[c].valid => req[c].resp.status = 400)
    /\ [][\A c \in Clients :
            (req'[c].kind = "register" /\ req'[c].existed /\ req'[c] # req[c]) =>
                users' = users]_vars

\* a valid registration of an existing email, with another password and
\* name than the row holds, has been answered
C2_Witness ==
    \E c \in Clients :
        /\ IsDone(c, "register") /\ req[c].existed /\ req[c].valid
        /\ \E u \in users :
              /\ u.email = req[c].email
              /\ u.password.pw # req[c].password
              /\ u.name # req[c].name

\* the request has inserted a User row
Created(c) ==
    req[c].kind = "register" /\ (req[c].pc = "reg_session" \/ req[c].resp.status = 200)

\* C3: under every interleaving of registrations for one email at most one of
\* them creates a user and reports success, and no two User rows share an email.
C3_OneRegistrationWins ==
    /\ \A u, v \in users : u.email = v.email => u = v
    /\ \A c, d \in Clients :
          (Created(c) /\ Created(d) /\ req[c].email = req[d].email) => c = d

\* two registrations of one email raced: one created the row, the create of
\* the other was rejected by the unique index
C3_Witness ==
    \E c, d \in Clients :
        /\ c # d
        /\ req[c].kind = "register" /\ req[d].kind = "register"
        /\ req[c].email = req[d].email
        /\ Created(c) /\ req[d].rejected

\* C4: the registration whose create the unique index rejects is answered
\* 409 'User already exists'.
C4_LoserConflict ==
    \A c \in Clients :
        (req[c].kind = "register" /\ req[c].rejected) =>
            req[c].resp = Error(409, "User already exists")

\* which of the credential checks of a login fails
LoginCase(r) ==
    IF r.found = {} THEN "no user"
    ELSE IF \E u \in r.found : u.password = NullDigest THEN "no password"
    ELSE IF \E u \in r.found : u.password.pw # r.password THEN "wrong password"
    ELSE "ok"

\* C5: a login for a nonexistent email, for a user without a password digest
\* and for a wrong password get the same answer, 401 'Invalid credentials',
\* and leave the caller's session as it was.
C5_IndistinguishableFailures ==
    \A c \in Clients :
        (IsDone(c, "login") /\ req[c].valid /\ LoginCase(req[c]) # "ok") =>
            /\ req[c].resp = Error(401, "Invalid credentials")
            /\ session[c] = req[c].sessionBefore

\* two callers failed in different cases (no password digest, wrong
\* password) and hold the same answer
C5_Witness ==
    \E c, d \in Clients :
        /\ IsDone(c, "login") /\ req[c].valid /\ LoginCase(req[c]) = "no password"
        /\ IsDone(d, "login") /\ req[d].valid /\ LoginCase(req[d]) = "wrong password"
        /\ req[c].resp = req[d].resp

(***************************************************************************)
(* Properties of the passkey endpoints (checked under SpecPasskey).        *)
(***************************************************************************)
\* the stored row an assertion names
NamedAuthenticator(r) == AuthenticatorByCredential(FromBase64url(r.response.id))

\* the request takes a step of its assertion verification
VerificationStep(c) ==
    /\ req[c].kind = "webauthn"
    /\ req[c].pc \in {"wa_verify", "wa_update"}
    /\ req'[c] # req[c]

\* C6: a verification of an assertion whose counter is not above the stored
\* counter fails: it returns no user, establishes no session and leaves the
\* stored counter as it is.
C6_StaleCounterFails ==
    [][\A c \in Clients :
          (VerificationStep(c) /\
           \E a \in NamedAuthenticator(req[c]) : req[c].response.counter <= a.counter) =>
              /\ req'[c].pc = "done"
              /\ req'[c].resp.user = NoUser
              /\ session'[c] = session[c]
              /\ authenticators' = authenticators]_vars

\* C7: the verification of a verified assertion whose counter n is above the
\* stored counter stores n in the row of exactly that authenticator and
\* returns (and puts in the session) {id, email, name} of the user who owns it.
C7_CounterStoredOwnerReturned ==
    [][\A c \in Clients :
          (req[c].pc = "wa_update" /\ req'[c].pc = "done") =>
              \A a \in NamedAuthenticator(req[c]) :
                  req[c].response.counter > a.counter =>
                      /\ authenticators' = (authenticators \ {a}) \cup
                             {[a EXCEPT !.counter = req[c].response.counter]}
                      /\ \E u \in users :
                            /\ u.id = a.userId
                            /\ req'[c].resp = Ok([id |-> u.id, email |-> u.email, name |-> u.name])
                            /\ session'[c] = [id |-> u.id, email |-> u.email, name |-> u.name]]_vars

\* an authentication has succeeded with a counter above 1 while another
\* user owns another authenticator
C7_Witness ==
    \E c \in Clients :
        /\ IsDone(c, "webauthn") /\ req[c].resp.status = 200
        /\ \E a \in NamedAuthenticator(req[c]) :
              /\ a.counter = req[c].response.counter
              /\ a.counter > 1
              /\ req[c].resp.user.id = a.userId
              /\ \E b \in authenticators : b.userId # a.userId

\* C8: the stored counter of an authenticator never decreases.
C8_CounterMonotonic ==
    [][\A a \in authenticators : \A b \in authenticators' :
          a.credentialID = b.credentialID => b.counter >= a.counter]_vars

\* C9: two concurrent authentications with the same assertion do not both
\* succeed.
C9_NoConcurrentReplay ==
    \A c, d \in Clients :
        (/\ c # d
         /\ IsDone(c, "webauthn") /\ IsDone(d, "webauthn")
         /\ req[c].response = req[d].response
         /\ (c \in req[d].overlaps \/ d \in req[c].overlaps)) =>
            ~(req[c].resp.status = 200 /\ req[d].resp.status = 200)

\* C10: a successful verify-registration inserts one Authenticator row whose
\* counter, credential identifier and public key are those of the
\* attestation-verification result, owned by the userID of the request.
C10_RowFromAttestation ==
    [][\A c \in Clients :
          (req[c].pc = "vr_create" /\ req'[c].pc = "done" /\ req'[c].resp.status = 200) =>
              \E row \in authenticators' \ authenticators :
                  /\ authenticators' = authenticators \cup {row}
                  /\ row.counter = req[c].registrationInfo.counter
                  /\ row.credentialID = req[c].registrationInfo.credentialID
                  /\ row.credentialPublicKey = req[c].registrationInfo.credentialPublicKey
                  /\ row.userId = req[c].userID
                  /\ req'[c].resp.authenticator.id = row.id]_vars

\* a registration whose attested counter is above 0 has succeeded
C10_Witness ==
    \E c \in Clients :
        /\ IsDone(c, "verify-registration") /\ req[c].resp.status = 200
        /\ req[c].response.counter > 0
        /\ \E row \in authenticators :
              /\ row.id = req[c].resp.authenticator.id
              /\ row.counter = req[c].response.counter
              /\ row.credentialID = req[c].response.credentialID
              /\ row.userId = req[c].userID

\* C11: no two Authenticator rows share a credential identifier, and a
\* verify-registration whose verified credential identifier is already stored
\* adds no row and does not report success.
C11_UniqueCredential ==
    /\ [](\A a, b \in authenticators : a.credentialID = b.credentialID => a = b)
    /\ [][\A c \in Clients :
            (/\ req[c].pc = "vr_create" /\ req'[c].pc = "done"
             /\ AuthenticatorByCredential(req[c].registrationInfo.credentialID) # {}) =>
                /\ authenticators' = authenticators
                /\ req'[c].resp.status # 200]_vars

\* a verified registration of a credential identifier that another user
\* already holds has been turned down
C11_Witness ==
    \E c \in Clients :
        /\ IsDone(c, "verify-registration")
        /\ req[c].resp.status = 500
        /\ \E a \in authenticators :
              /\ a.credentialID = req[c].response.credentialID
              /\ a.userId # req[c].userID

\* the attestation is well-formed and signs the challenge the request expects
Attested(r) == r.response.attested /\ r.response.challenge = r.expectedChallenge

\* C12: an Authenticator row is created only by a verify-registration whose
\* attestation was verified with registration info; a request whose result is
\* not verified is answered 400 'Registration verification failed' and
\* creates no row.
C12_RowOnlyWhenVerified ==
    /\ [](\A c \in Clients :
            (/\ IsDone(c, "verify-registration")
             /\ "outcome" \in DOMAIN req[c]
             /\ req[c].outcome = "unverified") =>
                req[c].resp = Error(400, "Registration verification failed"))
    /\ [][\A b \in authenticators' :
            (\A a \in authenticators : a.id # b.id) =>
                \E c \in Clients :
                    /\ req[c].kind = "verify-registration"
                    /\ req[c].pc = "vr_create" /\ req'[c].pc = "done"
                    /\ Attested(req[c])
                    /\ b.credentialID = req[c].response.credentialID]_vars

\* one request was answered 400 for an unverified attestation while the
\* verified request of another caller created a row
C12_Witness ==
    \E c, d \in Clients :
        /\ IsDone(c, "verify-registration")
        /\ "outcome" \in DOMAIN req[c] /\ req[c].outcome = "unverified"
        /\ req[c].resp = Error(400, "Registration verification failed")
        /\ IsDone(d, "verify-registration") /\ req[d].resp.status = 200
        /\ \E b \in authenticators : b.id = req[d].resp.authenticator.id

\* C15: a failed POST /auth/login leaves the caller's session as it was and
\* no step of a login modifies the User or Authenticator table; a login
\* writes the session only in its last step, for a user whose stored digest
\* is the digest of the submitted password.
C15_FailedLoginNoEffect ==
    /\ [](\A c \in Clients :
            (IsDone(c, "login") /\ req[c].resp.status # 200) =>
                session[c] = req[c].sessionBefore)
    /\ [][\A c \in Clients :
            (req'[c].kind = "login" /\ req'[c] # req[c]) =>
                /\ users' = users
                /\ authenticators' = authenticators
                /\ session' # session =>
                      /\ req[c].pc = "login_session"
                      /\ \E u \in users :
                            /\ u.email = req[c].email
                            /\ u.password = [scheme |-> "scrypt", pw |-> req[c].password]
                            /\ session'[c].id = u.id]_vars

\* a caller that holds a session submitted a wrong password for an existing
\* account and keeps the session it had
C15_Witness ==
    \E c \in Clients :
        /\ IsDone(c, "login") /\ req[c].resp.status = 401
        /\ req[c].found # {}
        /\ req[c].sessionBefore # NoUser
        /\ session[c] = req[c].sessionBefore

\* C16: the user of every register or login response and every session
\* payload has only the fields id, email and name (createdAt is not
\* modelled): neither the digest nor the plaintext password is in it.
C16_NoPasswordExposed ==
    /\ \A c \in Clients :
          (req[c].kind \in {"register", "login"} /\ req[c].pc = "done") =>
              /\ DOMAIN req[c].resp.user \subseteq {"id", "email", "name"}
              /\ req[c].resp.message # req[c].password
              /\ req[c].resp.status = 200 =>
                    \E u \in users :
                        req[c].resp.user = [id |-> u.id, email |-> u.email, name |-> u.name]
    /\ \A c \in Clients :
          /\ DOMAIN session[c] \subseteq {"id", "email", "name"}
          /\ session[c] # NoUser =>
                \E u \in users :
                    session[c] = [id |-> u.id, email |-> u.email, name |-> u.name]

\* a login succeeded for an account with a stored digest and the caller's
\* session carries the answered user
C16_Witness ==
    \E c \in Clients :
        /\ IsDone(c, "login") /\ req[c].resp.status = 200
        /\ session[c] = req[c].resp.user
        /\ \E u \in users : u.id = session[c].id /\ u.password.scheme = "scrypt"

\* the bodies registration has to turn down
InvalidRegistration(e, p) ==
    e = NoEmail \/ p = "" \/ ~ValidEmail(e) \/ Len(p) < MinPasswordLen

C30_LoginValidation ==
    /\ [][\A c \in Clients :
            (req'[c].kind = "login" /\ req'[c] # req[c] /\ Free(c)
             /\ req'[c].email # NoEmail) =>
                IF ValidEmail(req'[c].email)
                THEN req'[c].pc = "login_find"
                ELSE /\ req'[c].pc = "done"
                     /\ req'[c].resp = Error(400, "Invalid email address")]_vars
    /\ [](\A c \in Clients :
            (/\ IsDone(c, "login") /\ req[c].password = ""
             /\ ValidEmail(req[c].email) /\ req[c].found # {}) =>
                req[c].resp = Error(401, "Invalid credentials"))

\* a login with the empty password for a registered account was answered 401
C30_Witness ==
    \E c \in Clients :
        /\ IsDone(c, "login") /\ req[c].password = ""
        /\ \E u \in req[c].found : u.password # NullDigest
        /\ req[c].resp.status = 401

(***************************************************************************)
(* Properties of the options endpoints (checked under SpecOptions).        *)
(***************************************************************************)
\* C18: register-options answers 400 'User ID is required' when userID is
\* missing and 404 'User not found' when no user has that id; neither answer
\* carries options or a challenge, and no step of the request modifies a table.
C18_RegisterOptionsErrors ==
    /\ [](\A c \in Clients :
            (IsDone(c, "register-options") /\ req[c].userID = 0) =>
                req[c].resp = Error(400, "User ID is required"))
    /\ [][\A c \in Clients :
            (/\ req[c].kind = "register-options" /\ req[c].pc = "ro_find"
             /\ req'[c].pc # "ro_find"
             /\ UserById(req[c].userID) = {}) =>
                /\ req'[c].pc = "done"
                /\ req'[c].resp = Error(404, "User not found")]_vars
    /\ [](\A c \in Clients :
            (IsDone(c, "register-options") /\ req[c].resp.status # 200) =>
                DOMAIN req[c].resp \cap {"options", "challenge"} = {})
    /\ [][(\E c \in Clients : req'[c].kind = "register-options" /\ req'[c] # req[c]) =>
            /\ users' = users
            /\ authenticators' = authenticators
            /\ session' = session]_vars

\* one request without userID was answered 400 and one for the id of no
\* user was answered 404
C18_Witness ==
    \E c, d \in Clients :
        /\ IsDone(c, "register-options") /\ req[c].userID = 0
        /\ req[c].resp.status = 400
        /\ IsDone(d, "register-options") /\ req[d].userID = 3
        /\ req[d].resp.status = 404

\* the credential identifiers of the rows a user owns
CredentialsOf(userId) == {a.credentialID : a \in {x \in authenticators : x.userId = userId}}

\* C19: the exclusion list of register-options for user u holds exactly the
\* credential identifiers of the Authenticator rows u owns when the handler
\* reads them, and none of another user's.
C19_ExclusionList ==
    /\ [][\A c \in Clients :
            (req[c].pc = "ro_find" /\ req'[c].pc = "ro_generate") =>
                {a.credentialID : a \in req'[c].existingAuthenticators}
                    = CredentialsOf(req[c].userID)]_vars
    /\ [](\A c \in Clients :
            (IsDone(c, "register-options") /\ req[c].resp.status = 200) =>
                /\ {FromBase64url(d.id) : d \in req[c].resp.options.excludeCredentials}
                       = {a.credentialID : a \in req[c].existingAuthenticators}
                /\ \A d \in req[c].resp.options.excludeCredentials :
                       FromBase64url(d.id) \in CredentialsOf(req[c].userID))

\* the exclusion list of a user names the credential an earlier
\* registration added while another user owns an authenticator too
C19_Witness ==
    \E c \in Clients :
        /\ IsDone(c, "register-options") /\ req[c].resp.status = 200
        /\ {d.id : d \in req[c].resp.options.excludeCredentials} = {"Ag"}
        /\ \E a \in authenticators : a.userId # req[c].userID

\* the rows owned by the user with an email address
RowsOfEmail(email) ==
    {a \in authenticators : \E u \in users : u.email = email /\ a.userId = u.id}

\* C20: auth-options gives an allow-list exactly when an email is supplied
\* that resolves to a user with at least one authenticator, and then the
\* list holds exactly that user's credential identifiers; in every other case
\* it answers with options and a challenge, without allow-list and without
\* error.
C20_AllowList ==
    /\ [][\A c \in Clients :
            (req[c].kind = "auth-options" /\ req[c].pc = "ao_find"
             /\ req'[c].pc = "ao_generate") =>
                /\ req'[c].allowDefined <=> RowsOfEmail(req[c].userEmail) # {}
                /\ req'[c].allowDefined =>
                      {d.id : d \in req'[c].allowCredentials}
                          = {a.credentialID : a \in RowsOfEmail(req[c].userEmail)}]_vars
    /\ [](\A c \in Clients :
            IsDone(c, "auth-options") =>
                /\ req[c].resp.status = 200
                /\ req[c].resp.challenge \in Challenges
                /\ req[c].resp.options.challenge = req[c].resp.challenge
                /\ ("allowCredentials" \in DOMAIN req[c].resp.options) <=> req[c].allowDefined
                /\ req[c].allowDefined =>
                      {FromBase64url(d.id) : d \in req[c].resp.options.allowCredentials}
                          = {d.id : d \in req[c].allowCredentials}
                /\ req[c].userEmail \in {NoEmail, EmailUnknown} => ~req[c].allowDefined)

\* one answer carries the allow-list of a user with an authenticator, another
\* answer, for a user without authenticators, carries none
C20_Witness ==
    \E c, d \in Clients :
        /\ IsDone(c, "auth-options")
        /\ "allowCredentials" \in DOMAIN req[c].resp.options
        /\ req[c].resp.options.allowCredentials # {}
        /\ IsDone(d, "auth-options") /\ req[d].userEmail = EmailB
        /\ "allowCredentials" \notin DOMAIN req[d].resp.options

(***************************************************************************)
(* Properties of all endpoints together (checked under SpecAll).           *)
(***************************************************************************)
\* C13: the stored counter of an authenticator changes only in the update
\* step of a WebAuthn authentication for that credential, whose assertion is
\* signed by the credential's key over the expected challenge and which is
\* answered with the user; every other step of every endpoint leaves every
\* stored counter as it is.
C13_CounterChangedByAuthentication ==
    [][\A a \in authenticators :
          (\E b \in authenticators' : b.id = a.id /\ b.counter # a.counter) =>
              \E c \in Clients :
                  /\ req[c].kind = "webauthn"
                  /\ req[c].pc = "wa_update" /\ req'[c].pc = "done"
                  /\ req'[c].resp.status = 200
                  /\ FromBase64url(req[c].response.id) = a.credentialID
                  /\ req[c].response.signedBy = a.credentialPublicKey
                  /\ req[c].response.challenge = req[c].challenge]_vars

\* an authentication stored a new counter for the first credential while
\* the second credential, registered meanwhile, keeps its counter
C13_Witness ==
    /\ \E a \in authenticators : a.credentialID = <<1>> /\ a.counter > 0
    /\ \E a \in authenticators : a.credentialID = <<2>> /\ a.counter = 0
    /\ \E c \in Clients : IsDone(c, "webauthn") /\ req[c].resp.status = 200

\* the authenticators a user owns in a table
Owned(table, userId) == {a \in table : a.userId = userId}

\* C14: no step of any endpoint deletes a User row or changes its digest,
\* deletes an Authenticator row or gives it to another user, or lowers the
\* number of authenticators of a user.
C14_GraphOnlyGrows ==
    [][/\ \A u \in users :
            \E v \in users' :
                v.id = u.id /\ v.email = u.email /\ v.password = u.password
       /\ \A a \in authenticators :
            \E b \in authenticators' :
                /\ b.id = a.id /\ b.credentialID = a.credentialID
                /\ b.credentialPublicKey = a.credentialPublicKey
                /\ b.userId = a.userId
       /\ \A u \in users :
            Cardinality(Owned(authenticators', u.id)) >= Cardinality(Owned(authenticators, u.id))]_vars

\* a user was registered, an authenticator was added and a counter was
\* updated; the rows the endpoints started from are still there
C14_Witness ==
    /\ Cardinality(users) = 3
    /\ Cardinality(authenticators) = 2
    /\ \E a \in authenticators : a.id = SeedAuthenticator.id /\ a.counter > 0
    /\ {SeedUser, PasskeyUser} \subseteq users

(***************************************************************************)
(* Further properties of the passkey endpoints (checked under SpecPasskey).*)
(***************************************************************************)
\* the authenticators whose credential identifier a client text encodes
RowsNamed(text) == {a \in authenticators : Base64url(a.credentialID) = text}

\* C21: a WebAuthn authentication whose credential identifier matches no
\* Authenticator row ends at the lookup: no user is returned, no session is
\* established, neither the verification nor the counter update runs, and
\* every table is left as it is.
C21_UnknownCredentialFails ==
    [][\A c \in Clients :
          (/\ req[c].kind = "webauthn" /\ req[c].pc = "wa_find"
           /\ req'[c] # req[c]
           /\ RowsNamed(req[c].response.id) = {}) =>
              /\ req'[c].pc = "done"
              /\ req'[c].resp.status # 200
              /\ req'[c].resp.user = NoUser
              /\ "verification" \notin DOMAIN req'[c]
              /\ session' = session
              /\ users' = users
              /\ authenticators' = authenticators]_vars

\* an assertion naming the second credential was turned down while only the
\* first credential is stored
C21_Witness ==
    \E c \in Clients :
        /\ IsDone(c, "webauthn") /\ req[c].response # NoAssertion
        /\ req[c].resp.status = 401
        /\ req[c].response.id = "Ag"
        /\ "authenticator" \notin DOMAIN req[c]
        /\ authenticators = {SeedAuthenticator}
        /\ session[c] = NoUser

(***************************************************************************)
(* Properties of failing calls (checked under SpecFailure).                *)
(***************************************************************************)
\* C22: a request one of whose storage or library calls threw is answered
\* 500 'Internal server error', never as a failed authentication or a success.
C22_FailureIsInternalError ==
    \A c \in Clients :
        (req[c].pc = "done" /\ "failed" \in DOMAIN req[c]) =>
            req[c].resp = Error(500, "Internal server error")

(***************************************************************************)
(* Properties of sessions (checked under SpecSession).                     *)
(***************************************************************************)
\* C23: a logout leaves the caller's session without user and changes no
\* table; a session without user gets one only in the last step of a
\* successful login or registration, and a session query answers the user
\* the session holds, so it answers null from a logout until then.
C23_LogoutClearsSession ==
    /\ [](\A c \in Clients :
            /\ IsDone(c, "logout") => session[c] = NoUser
            /\ IsDone(c, "session") => req[c].resp.user = session[c])
    /\ [][\A c \in Clients :
            /\ (req'[c].kind = "logout" /\ req'[c] # req[c]) =>
                  users' = users /\ authenticators' = authenticators
            /\ (session[c] = NoUser /\ session'[c] # NoUser) =>
                  /\ req[c].pc \in {"login_session", "reg_session"}
                  /\ req'[c].pc = "done"
                  /\ req'[c].resp.status = 200
                  /\ req'[c].resp.user = session'[c]]_vars

\* a caller with a session logged out and its next session query was
\* answered null
C23_Witness ==
    \E c \in Clients :
        /\ IsDone(c, "session")
        /\ req[c].loggedOut # NoUser
        /\ req[c].resp.user = NoUser

\* C26: a registration verification succeeds only with a challenge that
\* register-options has returned before, an authentication verification
\* only with one that auth-options has returned before.
C26_ChallengeWasIssued ==
    \A c \in Clients :
        /\ (IsDone(c, "verify-registration") /\ req[c].resp.status = 200) =>
              [endpoint |-> "register-options", challenge |-> req[c].expectedChallenge]
                  \in issued
        /\ (IsDone(c, "webauthn") /\ req[c].resp.status = 200) =>
              [endpoint |-> "auth-options", challenge |-> req[c].challenge] \in issued

\* C28: a session with a user carries the id, email and name of an existing
\* User row; a session gets its user in the last step of that user's
\* registration, of a password login whose password is the one of that
\* user's stored digest, or of a sign-in whose assertion is signed over the
\* expected challenge by the key of an authenticator that user owns.
C28_SessionIsOfUser ==
    /\ [](\A c \in Clients :
            session[c] # NoUser =>
                \E u \in users :
                    session[c] = [id |-> u.id, email |-> u.email, name |-> u.name])
    /\ [][\A c \in Clients :
            (session'[c] # session[c] /\ session'[c] # NoUser) =>
                \/ /\ req[c].pc \in {"reg_session", "login_session"}
                   /\ \E u \in users :
                         /\ u.id = session'[c].id
                         /\ u.email = req[c].email
                         /\ u.password = [scheme |-> "scrypt", pw |-> req[c].password]
                \/ /\ req[c].pc = "wa_update"
                   /\ \E a \in authenticators :
                         /\ a.userId = session'[c].id
                         /\ Base64url(a.credentialID) = req[c].response.id
                         /\ req[c].response.signedBy = a.credentialPublicKey
                         /\ req[c].response.challenge = req[c].challenge]_vars

\* one caller holds a session from a password login, the other one from a
\* passkey sign-in
C28_Witness ==
    \E c, d \in Clients :
        /\ IsDone(c, "login") /\ req[c].resp.status = 200 /\ session[c] # NoUser
        /\ IsDone(d, "webauthn") /\ req[d].resp.status = 200 /\ session[d] # NoUser

(***************************************************************************)
(* Ownership of authenticators (checked under SpecPasskey).                *)
(***************************************************************************)
\* C25: every Authenticator row is owned by exactly one existing User row;
\* a verify-registration whose userID matches no user is answered 404 'User
\* not found' and creates no row, and no step changes the owner of a row.
C25_OwnerExists ==
    /\ [](\A a \in authenticators :
            Cardinality({u \in users : u.id = a.userId}) = 1)
    /\ [][/\ \A c \in Clients :
               (/\ req[c].kind = "verify-registration" /\ req[c].pc = "vr_find"
                /\ req'[c] # req[c]
                /\ \A u \in users : u.id # req[c].userID) =>
                   /\ req'[c].pc = "done"
                   /\ req'[c].resp = Error(404, "User not found")
                   /\ authenticators' = authenticators
       /\ \A a \in authenticators, b \in authenticators' :
               b.id = a.id => b.userId = a.userId]_vars

\* a registration for the id of no user was answered 404 while a row that a
\* registration created and an authentication updated keeps its owner
C25_Witness ==
    /\ \E c \in Clients :
          /\ IsDone(c, "verify-registration") /\ req[c].userID = 3
          /\ req[c].resp.status = 404
    /\ \E a \in authenticators : a.counter > 0 /\ a.userId = SeedAuthenticator.userId

\* C27: a verify-registration creates an Authenticator row owned by user u
\* only for a caller whose session is a session of u.
C27_AttachNeedsSession ==
    [][\A c \in Clients :
          (req[c].pc = "vr_create" /\ authenticators' # authenticators) =>
              session[c].id = req[c].userID]_vars

(***************************************************************************)
(* Properties of the rows the endpoints create (checked under SpecEmpty).  *)
(***************************************************************************)
\* C29: on tables that only the endpoints have written, every User row has
\* a digest of a non-empty password, a User row is created only by the
\* create step of a registration, and no login ends in the branch for a
\* user without digest.
C29_EveryUserHasDigest ==
    /\ [](\A u \in users : u.password # NullDigest /\ u.password.pw # "")
    /\ [](\A c \in Clients :
            IsDone(c, "login") => \A u \in req[c].found : u.password # NullDigest)
    /\ [][users' # users =>
            \E c \in Clients : req[c].kind = "register" /\ req[c].pc = "reg_create"]_vars

\* a user that a registration created owns an authenticator, and a login
\* for that user went on to the verification of the password
C29_Witness ==
    \E c \in Clients :
        /\ IsDone(c, "login") /\ req[c].found # {}
        /\ \E u \in req[c].found : \E a \in authenticators : a.userId = u.id

====
